---------------------------- MODULE Spec2Model ----------------------------
(***************************************************************************)
(* A model of the uptime agent (src/uptime_agent):                         *)
(*                                                                         *)
(*   - models.py    UptimeStats and its update method (SpecStats);         *)
(*                  two threads updating one object (SpecConc);            *)
(*   - scheduler.py UptimeScheduler on top of the process-wide registry    *)
(*                  of the `schedule` package (Spec);                      *)
(*                  a second UptimeScheduler on the same registry          *)
(*                  (SpecTwo); start() against stop() (SpecLive);          *)
(*   - http_client.py UptimeHTTPClient.check_url (SpecProbe).              *)
(*                                                                         *)
(* Floats are modelled as exact rationals <<numerator, denominator>> in    *)
(* lowest terms, so every equality below is exact where the program's is   *)
(* within floating-point rounding.  Times are whole minutes.               *)
(***************************************************************************)
EXTENDS Integers, Sequences, FiniteSets, TLC

\* ------------------------------------------------------------------ bounds
MaxUpdates == 4      \* update calls on one stats object
MaxLatency == 2      \* response times are 0..MaxLatency
MaxEntries == 2      \* add_job calls in one run
MaxTime == 2         \* the clock runs from 0 to MaxTime minutes
MaxRetries == 2      \* max_retries of the HTTP client is 0..MaxRetries
MaxAttemptTime == 2  \* one HTTP attempt takes 1..MaxAttemptTime seconds
MaxBackoff == 1      \* the sleep before a further attempt: 0..MaxBackoff seconds

\* Python's None, for the Optional fields.
None == -1

VARIABLES
    stats,      \* the UptimeStats object of one target
    calls,      \* history: number of update calls made on stats
    sumLat,     \* history: sum of the response times of the calls that had one
    nLat        \* history: number of calls that carried a response time

statsVars == <<stats, calls, sumLat, nLat>>

VARIABLES
    jobs,       \* self.jobs: job id -> entry, NoJob where the id is absent
    running,    \* self.running
    entries,    \* every schedule.Job object created so far, by creation order
    scheduled,  \* schedule's registry (default_scheduler.jobs): indices of entries
    now,        \* the wall clock, in minutes
    pc,         \* where the thread that called start() is
    runnable,   \* run_pending's sorted list of due jobs, those not yet run
    inflight,   \* the activations of _execute_job that have not completed
    done,       \* history: the activation of _execute_job that completed last
    ret,        \* the last call of add_job, remove_job or get_job_status: what
                \* it returned, and whether its id was in the table (known)
    removedInFlight  \* history: ids removed while an activation of theirs ran

schedVars == <<jobs, running, entries, scheduled, now, pc, runnable, inflight,
               done, ret, removedInFlight>>

VARIABLES
    max_retries,    \* Retry(total=max_retries) of the client's adapter
    method,         \* the HTTP method check_url is called with
    expected_status_codes,  \* of the MonitoringTarget that is checked
    http_pc,        \* where the call of check_url is
    clock,          \* time.time(), in seconds
    start_time,     \* check_url's local start_time
    attempts,       \* history: the outcome of every HTTP attempt made so far
    attempt_start,  \* history: the time at which the last attempt began
    retries_left,   \* what is left of Retry.total
    result          \* the dict check_url returned, NoResult before

probeVars == <<max_retries, method, expected_status_codes, http_pc, clock,
               start_time, attempts, attempt_start, retries_left, result>>

VARIABLES
    thread      \* per thread inside update: its position, its check argument
                \* and the value on its evaluation stack

concVars == <<thread>>

VARIABLES
    jobs2,      \* self.jobs of a second UptimeScheduler
    running2,   \* its self.running
    pc2,        \* where the thread that called its start() is
    runnable2,  \* that thread's run_pending list
    inflight2,  \* the activations of _execute_job made from that thread
    owned2      \* the schedule.Job objects the second instance created

secondVars == <<jobs2, running2, pc2, runnable2, inflight2, owned2>>

VARIABLES
    stop_called \* history: stop() has been called on the scheduler

liveVars == <<stop_called>>

vars == <<stats, calls, sumLat, nLat, jobs, running, entries, scheduled, now,
          pc, runnable, inflight, done, ret, removedInFlight, probeVars,
          concVars, secondVars, liveVars>>

\* ------------------------------------------------------------- models.py

\* CheckStatus (an Enum of four members).
CheckStatus == {"SUCCESS", "FAILED", "TIMEOUT", "ERROR"}

\* UptimeCheck.response_time: Optional[float].
ResponseTimes == {None} \cup (0..MaxLatency)

\* UptimeCheck.timestamp.
Timestamps == {1, 2}

\* An UptimeCheck as far as update reads it.
UptimeCheck == [status : CheckStatus, response_time : ResponseTimes,
                timestamp : Timestamps]

RECURSIVE GCD(_, _)
GCD(a, b) == IF b = 0 THEN a ELSE GCD(b, a % b)

\* The float n/d (n >= 0, d > 0), in lowest terms.
Rat(n, d) == LET g == GCD(n, d) IN <<n \div g, d \div g>>

\* A freshly constructed UptimeStats: the dataclass defaults.
NewStats ==
    [total_checks |-> 0, successful_checks |-> 0, failed_checks |-> 0,
     average_response_time |-> Rat(0, 1), uptime_percentage |-> Rat(0, 1),
     last_check |-> None, last_success |-> None, last_failure |-> None]

\* Mutant of FailedAfter: only a FAILED result counts as a failure.
FailedAfterOnlyFailed(status, failed) ==
    IF status = "FAILED" THEN failed + 1 ELSE failed

\* failed_checks after the if/else on check.status.
FailedAfter(status, failed) ==
    IF status = "SUCCESS" THEN failed ELSE failed + 1

\* successful_checks after the if/else on check.status.
SuccessfulAfter(status, successful) ==
    IF status = "SUCCESS" THEN successful + 1 ELSE successful

\* Mutant of AverageAfter: a missing response time is averaged in as 0.0.
AverageAfterNoneAsZero(avg, rt, total) ==
    LET r == IF rt = None THEN 0 ELSE rt
    IN  Rat(avg[1] * (total - 1) + r * avg[2], avg[2] * total)

\* average_response_time after the "Update average response time" block;
\* total is total_checks after its increment.
AverageAfter(avg, rt, total) ==
    IF rt = None THEN avg
    ELSE IF avg[1] = 0 THEN Rat(rt, 1)
    ELSE Rat(avg[1] * (total - 1) + rt * avg[2], avg[2] * total)

\* Mutant of UptimeAfter: the quotient is taken with integer division.
UptimeAfterFloorDiv(old, successful, total) ==
    IF total > 0 THEN Rat((successful \div total) * 100, 1) ELSE old

\* uptime_percentage after the "Update uptime percentage" block.
UptimeAfter(old, successful, total) ==
    IF total > 0 THEN Rat(successful * 100, total) ELSE old

\* UptimeStats.update(check), on the stats object s.
UpdatedStats(s, check) ==
    LET total == s.total_checks + 1
        succ  == SuccessfulAfter(check.status, s.successful_checks)
        fail  == FailedAfter(check.status, s.failed_checks)
    IN  [total_checks          |-> total,
         successful_checks     |-> succ,
         failed_checks         |-> fail,
         average_response_time |->
             AverageAfter(s.average_response_time, check.response_time, total),
         uptime_percentage     |-> UptimeAfter(s.uptime_percentage, succ, total),
         last_check            |-> check.timestamp,
         last_success          |->
             IF check.status = "SUCCESS" THEN check.timestamp ELSE s.last_success,
         last_failure          |->
             IF check.status = "SUCCESS" THEN s.last_failure ELSE check.timestamp]

\* stats.update(check), for one check.
UpdateWith(check) ==
    /\ stats' = UpdatedStats(stats, check)
    /\ calls' = calls + 1
    /\ sumLat' = IF check.response_time = None THEN sumLat
                 ELSE sumLat + check.response_time
    /\ nLat' = IF check.response_time = None THEN nLat ELSE nLat + 1
    /\ UNCHANGED <<schedVars, probeVars, concVars,
                   secondVars, liveVars>>

\* One call of stats.update(check).
Update ==
    /\ calls < MaxUpdates
    /\ \E check \in UptimeCheck : UpdateWith(check)

StatsInit ==
    /\ stats = NewStats
    /\ calls = 0
    /\ sumLat = 0
    /\ nLat = 0

\* ---------------------------------- models.py: update from two threads
\* update takes no lock and nothing in the package serialises its callers, so
\* two calls on one object interleave at every read and write of a field.
\* Each step below is one such read or write, in the order the statement
\* evaluates them.

MaxThreads == 2      \* threads that call update on the one stats object
MaxThreadCalls == 2  \* update calls the threads make between them

Threads == 1..MaxThreads

\* A check for a thread that is not inside update.
NoCheck == [status |-> "SUCCESS", response_time |-> None, timestamp |-> 1]

\* A thread outside update.
Idle == [pc |-> "idle", check |-> NoCheck, reg |-> Rat(0, 1)]

ConcInit == thread = [t \in Threads |-> Idle]

\* Thread t moves to position p with v on its stack.
Goto(t, p, v) == thread' = [thread EXCEPT ![t].pc = p, ![t].reg = v]

\* The stats object with field f set to v.
SetField(f, v) == stats' = [stats EXCEPT ![f] = v]

\* Where line 158 and then line 166 lead once the counter's timestamp is set.
AfterCounters(check) ==
    IF check.response_time = None THEN "l176" ELSE "l167"

\* Thread t enters update(check).
CallUpdate(t, check) ==
    /\ thread[t].pc = "idle"
    /\ calls < MaxThreadCalls
    /\ thread' = [thread EXCEPT ![t] = [pc |-> "l155", check |-> check,
                                        reg |-> Rat(0, 1)]]
    /\ calls' = calls + 1
    /\ sumLat' = IF check.response_time = None THEN sumLat
                 ELSE sumLat + check.response_time
    /\ nLat' = IF check.response_time = None THEN nLat ELSE nLat + 1
    /\ UNCHANGED <<stats, schedVars, probeVars,
                   secondVars, liveVars>>

\* Line 155, "self.total_checks += 1": the read.
Load155(t) ==
    /\ thread[t].pc = "l155"
    /\ Goto(t, "l155_store", Rat(stats.total_checks, 1))
    /\ UNCHANGED <<stats, calls, sumLat, nLat, schedVars, probeVars,
                   secondVars, liveVars>>

\* Line 155: the write.
Store155(t) ==
    /\ thread[t].pc = "l155_store"
    /\ SetField("total_checks", thread[t].reg[1] + 1)
    /\ Goto(t, "l156", thread[t].reg)
    /\ UNCHANGED <<calls, sumLat, nLat, schedVars, probeVars,
                   secondVars, liveVars>>

\* Line 156, and the test of line 158.
Store156(t) ==
    /\ thread[t].pc = "l156"
    /\ SetField("last_check", thread[t].check.timestamp)
    /\ Goto(t, IF thread[t].check.status = "SUCCESS" THEN "l159" ELSE "l162",
            thread[t].reg)
    /\ UNCHANGED <<calls, sumLat, nLat, schedVars, probeVars,
                   secondVars, liveVars>>

\* Line 159, "self.successful_checks += 1": the read.
Load159(t) ==
    /\ thread[t].pc = "l159"
    /\ Goto(t, "l159_store", Rat(stats.successful_checks, 1))
    /\ UNCHANGED <<stats, calls, sumLat, nLat, schedVars, probeVars,
                   secondVars, liveVars>>

\* Line 159: the write.
Store159(t) ==
    /\ thread[t].pc = "l159_store"
    /\ SetField("successful_checks", thread[t].reg[1] + 1)
    /\ Goto(t, "l160", thread[t].reg)
    /\ UNCHANGED <<calls, sumLat, nLat, schedVars, probeVars,
                   secondVars, liveVars>>

\* Line 160, and the test of line 166.
Store160(t) ==
    /\ thread[t].pc = "l160"
    /\ SetField("last_success", thread[t].check.timestamp)
    /\ Goto(t, AfterCounters(thread[t].check), thread[t].reg)
    /\ UNCHANGED <<calls, sumLat, nLat, schedVars, probeVars,
                   secondVars, liveVars>>

\* Line 162, "self.failed_checks += 1": the read.
Load162(t) ==
    /\ thread[t].pc = "l162"
    /\ Goto(t, "l162_store", Rat(stats.failed_checks, 1))
    /\ UNCHANGED <<stats, calls, sumLat, nLat, schedVars, probeVars,
                   secondVars, liveVars>>

\* Line 162: the write.
Store162(t) ==
    /\ thread[t].pc = "l162_store"
    /\ SetField("failed_checks", thread[t].reg[1] + 1)
    /\ Goto(t, "l163", thread[t].reg)
    /\ UNCHANGED <<calls, sumLat, nLat, schedVars, probeVars,
                   secondVars, liveVars>>

\* Line 163, and the test of line 166.
Store163(t) ==
    /\ thread[t].pc = "l163"
    /\ SetField("last_failure", thread[t].check.timestamp)
    /\ Goto(t, AfterCounters(thread[t].check), thread[t].reg)
    /\ UNCHANGED <<calls, sumLat, nLat, schedVars, probeVars,
                   secondVars, liveVars>>

\* Line 167, "if self.average_response_time == 0.0".
Test167(t) ==
    /\ thread[t].pc = "l167"
    /\ Goto(t, IF stats.average_response_time[1] = 0 THEN "l168" ELSE "l171",
            thread[t].reg)
    /\ UNCHANGED <<stats, calls, sumLat, nLat, schedVars, probeVars,
                   secondVars, liveVars>>

\* Line 168.
Store168(t) ==
    /\ thread[t].pc = "l168"
    /\ SetField("average_response_time", Rat(thread[t].check.response_time, 1))
    /\ Goto(t, "l176", thread[t].reg)
    /\ UNCHANGED <<calls, sumLat, nLat, schedVars, probeVars,
                   secondVars, liveVars>>

\* Line 171: the numerator, from the average and total_checks as they are.
Load171(t) ==
    /\ thread[t].pc = "l171"
    /\ LET avg == stats.average_response_time
       IN  Goto(t, "l172",
                Rat(avg[1] * (stats.total_checks - 1)
                      + thread[t].check.response_time * avg[2], avg[2]))
    /\ UNCHANGED <<stats, calls, sumLat, nLat, schedVars, probeVars,
                   secondVars, liveVars>>

\* Line 172: the division by total_checks, read again.
Load172(t) ==
    /\ thread[t].pc = "l172"
    /\ Goto(t, "l170_store",
            Rat(thread[t].reg[1], thread[t].reg[2] * stats.total_checks))
    /\ UNCHANGED <<stats, calls, sumLat, nLat, schedVars, probeVars,
                   secondVars, liveVars>>

\* Line 170: the write of the new average.
Store170(t) ==
    /\ thread[t].pc = "l170_store"
    /\ SetField("average_response_time", thread[t].reg)
    /\ Goto(t, "l176", thread[t].reg)
    /\ UNCHANGED <<calls, sumLat, nLat, schedVars, probeVars,
                   secondVars, liveVars>>

\* Line 176, "if self.total_checks > 0"; update returns where it is not.
Test176(t) ==
    /\ thread[t].pc = "l176"
    /\ IF stats.total_checks > 0
       THEN Goto(t, "l177", thread[t].reg)
       ELSE thread' = [thread EXCEPT ![t] = Idle]
    /\ UNCHANGED <<stats, calls, sumLat, nLat, schedVars, probeVars,
                   secondVars, liveVars>>

\* Line 177: the quotient, from the two counters as they are.
Load177(t) ==
    /\ thread[t].pc = "l177"
    /\ Goto(t, "l177_store",
            UptimeAfter(stats.uptime_percentage, stats.successful_checks,
                        stats.total_checks))
    /\ UNCHANGED <<stats, calls, sumLat, nLat, schedVars, probeVars,
                   secondVars, liveVars>>

\* Line 177: the write; update returns.
Store177(t) ==
    /\ thread[t].pc = "l177_store"
    /\ SetField("uptime_percentage", thread[t].reg)
    /\ thread' = [thread EXCEPT ![t] = Idle]
    /\ UNCHANGED <<calls, sumLat, nLat, schedVars, probeVars,
                   secondVars, liveVars>>

ConcNext ==
    \/ \E t \in Threads, check \in UptimeCheck : CallUpdate(t, check)
    \/ \E t \in Threads : Load155(t)
    \/ \E t \in Threads : Store155(t)
    \/ \E t \in Threads : Store156(t)
    \/ \E t \in Threads : Load159(t)
    \/ \E t \in Threads : Store159(t)
    \/ \E t \in Threads : Store160(t)
    \/ \E t \in Threads : Load162(t)
    \/ \E t \in Threads : Store162(t)
    \/ \E t \in Threads : Store163(t)
    \/ \E t \in Threads : Test167(t)
    \/ \E t \in Threads : Store168(t)
    \/ \E t \in Threads : Load171(t)
    \/ \E t \in Threads : Load172(t)
    \/ \E t \in Threads : Store170(t)
    \/ \E t \in Threads : Test176(t)
    \/ \E t \in Threads : Load177(t)
    \/ \E t \in Threads : Store177(t)

\* ----------------------------------------------------------- scheduler.py

\* "time.timedelta": the module time (imported on line 9) has no attribute
\* timedelta, so evaluating line 53 raises AttributeError.
TimeHasTimedelta == FALSE

\* The ids, callables and intervals (minutes) add_job is called with.
JobIds == {"a", "b"}
Funcs == {"f"}
Intervals == {1, 2}

\* Absent from self.jobs.
NoJob == [absent |-> TRUE]

\* No activation of _execute_job has completed yet / no call was made yet.
NoExec == [job_id |-> "none", registered |-> FALSE, invoked |-> 0,
           outcome |-> "none"]
NoCall == [op |-> "none", known |-> FALSE, result |-> "None"]

\* The entry add_job stores in self.jobs; oid is the identity of the dict
\* object (kwargs is carried with func).
NewJobEntry(func, interval, oid) ==
    [func |-> func, interval |-> interval, last_run |-> None,
     next_run |-> None, oid |-> oid]

\* schedule.every(interval).minutes.do(self._execute_job, job_id) at time t:
\* a schedule.Job bound to job_id, with no tags, first due one period from t.
NewScheduleJob(job_id, interval, t) ==
    [job_id |-> job_id, interval |-> interval, tags |-> {},
     next_run |-> t + interval]

\* schedule.Job.should_run at time t.
ShouldRun(e, t) == t >= e.next_run

\* Job.run after job_func returned at time t: the job is due again one period
\* from t (_schedule_next_run counts from the current time).
Rescheduled(e, t) == [e EXCEPT !.next_run = t + e.interval]

SeqRange(s) == {s[i] : i \in 1..Len(s)}

\* sorted(S) for schedule.Job objects: by next_run (Job.__lt__), stable, so
\* ties keep the registry's order, which is the order of creation.
RECURSIVE SortedJobs(_, _)
SortedJobs(S, es) ==
    IF S = {} THEN <<>>
    ELSE LET m == CHOOSE x \in S : \A y \in S :
                      \/ es[x].next_run < es[y].next_run
                      \/ es[x].next_run = es[y].next_run /\ x <= y
         IN  <<m>> \o SortedJobs(S \ {m}, es)

\* "job_id in self.jobs"
InJobs(job_id) == jobs[job_id] /= NoJob

\* The ids that have an activation of _execute_job in progress.
ActiveIds == {entries[a.eid].job_id : a \in inflight}

\* UptimeScheduler.__init__, and an empty schedule registry at time 0.
SchedInit ==
    /\ jobs = [id \in JobIds |-> NoJob]
    /\ running = FALSE
    /\ entries = <<>>
    /\ scheduled = <<>>
    /\ now = 0
    /\ pc = "idle"
    /\ runnable = <<>>
    /\ inflight = {}
    /\ done = NoExec
    /\ ret = NoCall
    /\ removedInFlight = {}

\* add_job(job_id, func, interval): the table entry is (over)written and one
\* more schedule.Job is appended to the registry.
AddJob(job_id, func, interval) ==
    /\ Len(entries) < MaxEntries
    /\ jobs' = [jobs EXCEPT ![job_id] =
                   NewJobEntry(func, interval, Len(entries) + 1)]
    /\ entries' = Append(entries, NewScheduleJob(job_id, interval, now))
    /\ scheduled' = Append(scheduled, Len(entries) + 1)
    /\ ret' = [op |-> "add_job", known |-> InJobs(job_id), result |-> "None"]
    /\ removedInFlight' = removedInFlight \ {job_id}
    /\ UNCHANGED <<running, now, pc, runnable, inflight, done,
                   statsVars, probeVars, concVars,
                   secondVars, liveVars>>

\* Mutant of JobsAfterRemove: the table entry is left in place.
JobsAfterRemoveKept(job_id) == jobs

\* self.jobs after "if job_id in self.jobs: del self.jobs[job_id]".
JobsAfterRemove(job_id) ==
    IF InJobs(job_id) THEN [jobs EXCEPT ![job_id] = NoJob] ELSE jobs

\* schedule.clear(tag): the registry keeps the jobs that do not carry the tag.
Cleared(tag) ==
    SelectSeq(scheduled, LAMBDA i : tag \notin entries[i].tags)

\* remove_job(job_id); it returns None on both paths.
RemoveJob(job_id) ==
    /\ jobs' = JobsAfterRemove(job_id)
    /\ scheduled' = IF InJobs(job_id) THEN Cleared(job_id) ELSE scheduled
    /\ ret' = [op |-> "remove_job", known |-> InJobs(job_id),
               result |-> "None"]
    /\ removedInFlight' =
          IF InJobs(job_id) /\ job_id \in ActiveIds
          THEN removedInFlight \cup {job_id} ELSE removedInFlight
    /\ UNCHANGED <<running, entries, now, pc, runnable, inflight, done,
                   statsVars, probeVars, concVars,
                   secondVars, liveVars>>

\* Mutant of JobStatus: self.jobs.get(job_id), None for an unknown id.
JobStatusGet(job_id) == IF InJobs(job_id) THEN "entry" ELSE "None"

\* What get_job_status(job_id) returns: the entry, or the empty dict.
JobStatus(job_id) == IF InJobs(job_id) THEN "entry" ELSE "empty"

\* get_job_status(job_id)
GetJobStatus(job_id) ==
    /\ ret' = [op |-> "get_job_status", known |-> InJobs(job_id),
               result |-> JobStatus(job_id)]
    /\ UNCHANGED <<jobs, running, entries, scheduled, now, pc, runnable,
                   inflight, done, removedInFlight,
                   statsVars, probeVars, concVars,
                   secondVars, liveVars>>

\* stop()
Stop ==
    /\ running
    /\ running' = FALSE
    /\ UNCHANGED <<jobs, entries, scheduled, now, pc, runnable, inflight,
                   done, ret, removedInFlight,
                   statsVars, probeVars, concVars,
                   secondVars, liveVars>>

\* The wall clock advances by a minute.
Tick ==
    /\ now < MaxTime
    /\ now' = now + 1
    /\ UNCHANGED <<jobs, running, entries, scheduled, pc, runnable, inflight,
                   done, ret, removedInFlight,
                   statsVars, probeVars, concVars,
                   secondVars, liveVars>>

\* start(), line 62: self.running = True.
Start ==
    /\ pc = "idle"
    /\ running' = TRUE
    /\ pc' = "while"
    /\ UNCHANGED <<jobs, entries, scheduled, now, runnable, inflight, done,
                   ret, removedInFlight,
                   statsVars, probeVars, concVars,
                   secondVars, liveVars>>

\* start(), line 63: the loop test.  When it holds, schedule.run_pending()
\* collects and sorts the registry's due jobs; otherwise start() returns.
While ==
    /\ pc = "while"
    /\ IF running
       THEN /\ pc' = "run_pending"
            /\ runnable' = SortedJobs(
                   {i \in SeqRange(scheduled) : ShouldRun(entries[i], now)},
                   entries)
       ELSE /\ pc' = "returned"
            /\ UNCHANGED runnable
    /\ UNCHANGED <<jobs, running, entries, scheduled, now, inflight, done,
                   ret, removedInFlight,
                   statsVars, probeVars, concVars,
                   secondVars, liveVars>>

\* Mutant of CanDispatch: a job is started without waiting for the one before.
CanDispatchConcurrently == TRUE

\* run_pending calls job.run() in its own thread, one job after the other:
\* the next job starts only when the call before it has come back.
CanDispatch == inflight = {}

\* run_pending's loop: job.run() of the next due job calls
\* self._execute_job(job_id).
Dispatch ==
    /\ pc = "run_pending"
    /\ runnable /= <<>>
    /\ CanDispatch
    /\ inflight' = inflight \cup {[eid |-> Head(runnable), at |-> 50, job |-> 0]}
    /\ runnable' = Tail(runnable)
    /\ UNCHANGED <<jobs, running, entries, scheduled, now, pc, done, ret,
                   removedInFlight,
                   statsVars, probeVars, concVars,
                   secondVars, liveVars>>

\* _execute_job, lines 50-51: for an id in the table, bind job to its dict;
\* otherwise return None, after which Job.run sets the job's next period.
Exec50(a) ==
    LET id == entries[a.eid].job_id IN
    /\ a.at = 50
    /\ IF InJobs(id)
       THEN /\ inflight' = (inflight \ {a}) \cup
                              {[a EXCEPT !.at = 52, !.job = jobs[id].oid]}
            /\ UNCHANGED <<entries, done>>
       ELSE /\ inflight' = inflight \ {a}
            /\ entries' = [entries EXCEPT ![a.eid] = Rescheduled(@, now)]
            /\ done' = [job_id |-> id, registered |-> FALSE, invoked |-> 0,
                        outcome |-> "returned"]
    /\ UNCHANGED <<jobs, running, scheduled, now, pc, runnable, ret,
                   removedInFlight,
                   statsVars, probeVars, concVars,
                   secondVars, liveVars>>

\* Mutant of WriteLastRun: the dict is stored back under its id
\* (self.jobs[job_id] = job), which puts a removed job back in the table.
WriteLastRunStoredBack(id, oid, t) ==
    [jobs EXCEPT ![id] =
        [NewJobEntry("f", entries[oid].interval, oid) EXCEPT !.last_run = t]]

\* The table after a write of field last_run through the local name job: it
\* shows in self.jobs only while the table still holds that same dict.
WriteLastRun(id, oid, t) ==
    IF InJobs(id) /\ jobs[id].oid = oid
    THEN [jobs EXCEPT ![id].last_run = t]
    ELSE jobs

\* The same for field next_run (line 53, were it to evaluate).
WriteNextRun(id, oid, t) ==
    IF InJobs(id) /\ jobs[id].oid = oid
    THEN [jobs EXCEPT ![id].next_run = t]
    ELSE jobs

\* _execute_job, line 52: job['last_run'] = datetime.now()
Exec52(a) ==
    /\ a.at = 52
    /\ jobs' = WriteLastRun(entries[a.eid].job_id, a.job, now)
    /\ inflight' = (inflight \ {a}) \cup {[a EXCEPT !.at = 53]}
    /\ UNCHANGED <<running, entries, scheduled, now, pc, runnable, done, ret,
                   removedInFlight,
                   statsVars, probeVars, concVars,
                   secondVars, liveVars>>

\* _execute_job, lines 53-58.  Line 53 raises AttributeError outside the try
\* block: it leaves _execute_job, Job.run (before the job is given its next
\* period), run_pending and start().  The other branch is the rest of the
\* method: next_run is written, func is called, an Exception of it is caught
\* and printed, and Job.run sets the next period.
Exec53(a) ==
    LET id == entries[a.eid].job_id IN
    /\ a.at = 53
    /\ inflight' = inflight \ {a}
    /\ IF TimeHasTimedelta
       THEN /\ jobs' = WriteNextRun(id, a.job, now + entries[a.eid].interval)
            /\ entries' = [entries EXCEPT ![a.eid] = Rescheduled(@, now)]
            /\ done' = [job_id |-> id, registered |-> TRUE, invoked |-> 1,
                        outcome |-> "returned"]
            /\ UNCHANGED pc
       ELSE /\ pc' = "crashed"
            /\ done' = [job_id |-> id, registered |-> TRUE, invoked |-> 0,
                        outcome |-> "raised"]
            /\ UNCHANGED <<jobs, entries>>
    /\ UNCHANGED <<running, scheduled, now, runnable, ret, removedInFlight,
                   statsVars, probeVars, concVars,
                   secondVars, liveVars>>

\* run_pending returns once every due job has run; line 65: time.sleep(1).
Sleep ==
    /\ pc = "run_pending"
    /\ runnable = <<>>
    /\ inflight = {}
    /\ pc' = "while"
    /\ UNCHANGED <<jobs, running, entries, scheduled, now, runnable, inflight,
                   done, ret, removedInFlight,
                   statsVars, probeVars, concVars,
                   secondVars, liveVars>>

\* ------------------------- scheduler.py: two instances, one registry
\* `schedule` is imported as a module (line 8) and every UptimeScheduler
\* calls its module-level functions, which work on the one registry
\* schedule.default_scheduler.  Below, a second instance adds and removes
\* jobs and runs start(); the first only adds and removes jobs and its
\* start() is never called.  A schedule.Job holds the bound method
\* _execute_job of the instance that created it, so its activation reads
\* and writes that instance's table.

SecondInit ==
    /\ jobs2 = [id \in JobIds |-> NoJob]
    /\ running2 = FALSE
    /\ pc2 = "idle"
    /\ runnable2 = <<>>
    /\ inflight2 = {}
    /\ owned2 = {}

\* "job_id in self.jobs", for the second instance.
InJobs2(job_id) == jobs2[job_id] /= NoJob

\* self.jobs of the instance whose _execute_job the registry entry eid holds.
TableOf(eid) == IF eid \in owned2 THEN jobs2 ELSE jobs

\* add_job(job_id, func, interval) on the second instance.
AddJob2(job_id, func, interval) ==
    /\ Len(entries) < MaxEntries
    /\ jobs2' = [jobs2 EXCEPT ![job_id] =
                    NewJobEntry(func, interval, Len(entries) + 1)]
    /\ entries' = Append(entries, NewScheduleJob(job_id, interval, now))
    /\ scheduled' = Append(scheduled, Len(entries) + 1)
    /\ owned2' = owned2 \cup {Len(entries) + 1}
    /\ UNCHANGED <<jobs, running, now, pc, runnable, inflight, done, ret,
                   removedInFlight, running2, pc2, runnable2, inflight2,
                   statsVars, probeVars, concVars, liveVars>>

\* remove_job(job_id) on the second instance.
RemoveJob2(job_id) ==
    /\ jobs2' = IF InJobs2(job_id) THEN [jobs2 EXCEPT ![job_id] = NoJob]
                ELSE jobs2
    /\ scheduled' = IF InJobs2(job_id) THEN Cleared(job_id) ELSE scheduled
    /\ UNCHANGED <<jobs, running, entries, now, pc, runnable, inflight, done,
                   ret, removedInFlight, running2, pc2, runnable2, inflight2,
                   owned2, statsVars, probeVars, concVars, liveVars>>

\* stop() on the second instance.
Stop2 ==
    /\ running2
    /\ running2' = FALSE
    /\ UNCHANGED <<schedVars, jobs2, pc2, runnable2, inflight2, owned2,
                   statsVars, probeVars, concVars, liveVars>>

\* start() on the second instance, line 62.
Start2 ==
    /\ pc2 = "idle"
    /\ running2' = TRUE
    /\ pc2' = "while"
    /\ UNCHANGED <<schedVars, jobs2, runnable2, inflight2, owned2,
                   statsVars, probeVars, concVars, liveVars>>

\* Its loop test, line 63, and schedule.run_pending() collecting the due
\* jobs of the registry, whichever instance created them.
While2 ==
    /\ pc2 = "while"
    /\ IF running2
       THEN /\ pc2' = "run_pending"
            /\ runnable2' = SortedJobs(
                   {i \in SeqRange(scheduled) : ShouldRun(entries[i], now)},
                   entries)
       ELSE /\ pc2' = "returned"
            /\ UNCHANGED runnable2
    /\ UNCHANGED <<schedVars, jobs2, running2, inflight2, owned2,
                   statsVars, probeVars, concVars, liveVars>>

\* run_pending's loop in the second instance's thread.
Dispatch2 ==
    /\ pc2 = "run_pending"
    /\ runnable2 /= <<>>
    /\ inflight2 = {}
    /\ inflight2' = {[eid |-> Head(runnable2), at |-> 50, job |-> 0]}
    /\ runnable2' = Tail(runnable2)
    /\ UNCHANGED <<schedVars, jobs2, running2, pc2, owned2,
                   statsVars, probeVars, concVars, liveVars>>

\* _execute_job, lines 50-51, of the instance that owns the entry.
Exec50in2(a) ==
    LET id == entries[a.eid].job_id IN
    /\ a.at = 50
    /\ IF TableOf(a.eid)[id] /= NoJob
       THEN /\ inflight2' = {[a EXCEPT !.at = 52,
                                       !.job = TableOf(a.eid)[id].oid]}
            /\ UNCHANGED entries
       ELSE /\ inflight2' = {}
            /\ entries' = [entries EXCEPT ![a.eid] = Rescheduled(@, now)]
    /\ UNCHANGED <<jobs, running, scheduled, now, pc, runnable, inflight,
                   done, ret, removedInFlight, jobs2, running2, pc2,
                   runnable2, owned2,
                   statsVars, probeVars, concVars, liveVars>>

\* _execute_job, line 52: the write of last_run, into the owner's dict.
Exec52in2(a) ==
    LET id == entries[a.eid].job_id IN
    /\ a.at = 52
    /\ IF a.eid \in owned2
       THEN /\ jobs2' = IF InJobs2(id) /\ jobs2[id].oid = a.job
                        THEN [jobs2 EXCEPT ![id].last_run = now] ELSE jobs2
            /\ UNCHANGED jobs
       ELSE /\ jobs' = WriteLastRun(id, a.job, now)
            /\ UNCHANGED jobs2
    /\ inflight2' = {[a EXCEPT !.at = 53]}
    /\ UNCHANGED <<running, entries, scheduled, now, pc, runnable, inflight,
                   done, ret, removedInFlight, running2, pc2, runnable2,
                   owned2, statsVars, probeVars, concVars, liveVars>>

\* _execute_job, lines 53-58, as in Exec53: the AttributeError of line 53
\* leaves run_pending and the start() that called it, here the second
\* instance's.
Exec53in2(a) ==
    LET id == entries[a.eid].job_id IN
    /\ a.at = 53
    /\ inflight2' = {}
    /\ IF TimeHasTimedelta
       THEN /\ IF a.eid \in owned2
               THEN /\ jobs2' = IF InJobs2(id) /\ jobs2[id].oid = a.job
                                THEN [jobs2 EXCEPT ![id].next_run =
                                         now + entries[a.eid].interval]
                                ELSE jobs2
                    /\ UNCHANGED jobs
               ELSE /\ jobs' = WriteNextRun(id, a.job,
                                            now + entries[a.eid].interval)
                    /\ UNCHANGED jobs2
            /\ entries' = [entries EXCEPT ![a.eid] = Rescheduled(@, now)]
            /\ UNCHANGED pc2
       ELSE /\ pc2' = "crashed"
            /\ UNCHANGED <<jobs, jobs2, entries>>
    /\ UNCHANGED <<running, scheduled, now, pc, runnable, inflight, done, ret,
                   removedInFlight, running2, runnable2, owned2,
                   statsVars, probeVars, concVars, liveVars>>

\* run_pending returns; line 65: time.sleep(1).
Sleep2 ==
    /\ pc2 = "run_pending"
    /\ runnable2 = <<>>
    /\ inflight2 = {}
    /\ pc2' = "while"
    /\ UNCHANGED <<schedVars, jobs2, running2, runnable2, inflight2, owned2,
                   statsVars, probeVars, concVars, liveVars>>

\* The first instance's add_job and remove_job, the second instance and the
\* clock.
TwoNext ==
    \/ \E id \in JobIds, f \in Funcs, n \in Intervals : AddJob(id, f, n)
    \/ \E id \in JobIds : RemoveJob(id)
    \/ \E id \in JobIds, f \in Funcs, n \in Intervals : AddJob2(id, f, n)
    \/ \E id \in JobIds : RemoveJob2(id)
    \/ Tick
    \/ Start2
    \/ Stop2
    \/ While2
    \/ Dispatch2
    \/ \E a \in inflight2 : Exec50in2(a)
    \/ \E a \in inflight2 : Exec52in2(a)
    \/ \E a \in inflight2 : Exec53in2(a)
    \/ Sleep2

\* ----------------------------------- scheduler.py: start() against stop()

\* stop(), whatever self.running is when it is called: line 69, and the
\* history of the call.
StopCall ==
    /\ running' = FALSE
    /\ stop_called' = TRUE
    /\ UNCHANGED <<jobs, entries, scheduled, now, pc, runnable, inflight,
                   done, ret, removedInFlight,
                   statsVars, probeVars, concVars, secondVars>>

\* One scheduler: add_job, stop() at any moment, start() and its loop.
\* pc = "idle" is every moment before line 62 has run.
LiveNext ==
    \/ \E id \in JobIds, f \in Funcs, n \in Intervals : AddJob(id, f, n)
    \/ StopCall
    \/ Tick
    \/ Start
    \/ While
    \/ Dispatch
    \/ \E a \in inflight : Exec50(a)
    \/ \E a \in inflight : Exec52(a)
    \/ \E a \in inflight : Exec53(a)
    \/ Sleep

\* The thread inside start() keeps running, and every job execution goes on
\* to its end.
LiveFairness ==
    /\ WF_vars(While)
    /\ WF_vars(Dispatch)
    /\ WF_vars(Sleep)
    /\ WF_vars(\E a \in inflight : Exec50(a))
    /\ WF_vars(\E a \in inflight : Exec52(a))
    /\ WF_vars(\E a \in inflight : Exec53(a))

\* --------------------------------------------------------- http_client.py

\* status_forcelist of the Retry strategy.
StatusForcelist == {429, 500, 502, 503, 504}

\* The methods urllib3's Retry retries on a status or a read error (its
\* default allowed_methods; POST is not among them).
AllowedMethods == {"GET", "HEAD", "PUT", "DELETE", "OPTIONS", "TRACE"}

\* The methods, status codes and accepted-code sets of the model.
Methods == {"GET", "POST"}
StatusCodes == {200, 204, 404, 429, 503}
ExpectedSets == {{}, {200}, {200, 204}}

\* What one HTTP attempt can end in: a response with a status code; no
\* connection (DNS, TLS, refused); no answer within the timeout; or an
\* exception that is no requests.RequestException (such as the ValueError
\* for a timeout of 0).
Outcomes ==
    [kind : {"response"}, code : StatusCodes]
        \cup [kind : {"connect_error", "read_timeout", "other_exception"},
              code : {None}]

NoResult == [returned |-> FALSE]

\* Mutant of MayRetry: every failure status is taken for a retryable one.
MayRetryAnyFailure(outcome, m) ==
    CASE outcome.kind = "response" -> outcome.code >= 400 /\ m \in AllowedMethods
      [] outcome.kind = "connect_error" -> TRUE
      [] outcome.kind = "read_timeout" -> m \in AllowedMethods
      [] OTHER -> FALSE

\* Whether the adapter's Retry strategy makes a further attempt after this
\* outcome, while retries are left.
MayRetry(outcome, m) ==
    CASE outcome.kind = "response" ->
            outcome.code \in StatusForcelist /\ m \in AllowedMethods
      [] outcome.kind = "connect_error" -> TRUE
      [] outcome.kind = "read_timeout" -> m \in AllowedMethods
      [] OTHER -> FALSE

\* The dict of lines 69-76, for a response with status code c.
ResponseResult(c, t0, t1) ==
    [returned |-> TRUE, status_code |-> c, response_time |-> t1 - t0,
     success |-> (200 <= c /\ c < 400), error |-> None, timestamp |-> t1]

\* The dict of lines 82-89, for a RequestException; error is str(e).
ErrorResult(e, t0, t1) ==
    [returned |-> TRUE, status_code |-> None, response_time |-> t1 - t0,
     success |-> FALSE, error |-> e, timestamp |-> t1]

\* The requests exception that session.request raises when the attempts end
\* in this outcome.
RequestException(outcome) ==
    CASE outcome.kind = "response" -> "RetryError"
      [] outcome.kind = "connect_error" -> "ConnectionError"
      [] OTHER -> "ReadTimeout"

\* The retry count of a check built from a result dict:
\* data.get('retry_count', 0), and check_url's dict has no such key.
RetryCountOf(r) ==
    IF "retry_count" \in DOMAIN r THEN r.retry_count ELSE 0

\* UptimeHTTPClient(timeout, max_retries), a target and a method.
ProbeInit ==
    /\ max_retries \in 0..MaxRetries
    /\ method \in Methods
    /\ expected_status_codes \in ExpectedSets
    /\ http_pc = "idle"
    /\ clock = 0
    /\ start_time = None
    /\ attempts = <<>>
    /\ attempt_start = None
    /\ retries_left = max_retries
    /\ result = NoResult

\* check_url, line 55, and the entry into session.request.
CheckUrl ==
    /\ http_pc = "idle"
    /\ start_time' = clock
    /\ http_pc' = "attempt"
    /\ UNCHANGED <<max_retries, method, expected_status_codes, clock, attempts,
                   attempt_start, retries_left, result, statsVars, schedVars, concVars,
                   secondVars, liveVars>>

\* One HTTP attempt inside session.request (lines 58-64), taking d seconds.
\* A response that is not to be retried is handed to check_url; a retryable
\* outcome leads to a further attempt while retries are left and to a
\* RequestException when none is; any other exception leaves check_url,
\* whose except clause names requests.exceptions.RequestException only.
Attempt(outcome, d) ==
    /\ http_pc = "attempt"
    /\ attempt_start' = clock
    /\ clock' = clock + d
    /\ attempts' = Append(attempts, outcome)
    /\ IF outcome.kind = "other_exception"
       THEN http_pc' = "raised" /\ UNCHANGED retries_left
       ELSE IF MayRetry(outcome, method) /\ retries_left > 0
       THEN http_pc' = "backoff" /\ retries_left' = retries_left - 1
       ELSE IF outcome.kind = "response"
               /\ ~MayRetry(outcome, method)
       THEN http_pc' = "response" /\ UNCHANGED retries_left
       ELSE http_pc' = "except" /\ UNCHANGED retries_left
    /\ UNCHANGED <<max_retries, method, expected_status_codes, start_time,
                   result, statsVars, schedVars, concVars,
                   secondVars, liveVars>>

\* The Retry strategy's sleep before the next attempt.
Backoff(b) ==
    /\ http_pc = "backoff"
    /\ clock' = clock + b
    /\ http_pc' = "attempt"
    /\ UNCHANGED <<max_retries, method, expected_status_codes, start_time,
                   attempts, attempt_start, retries_left, result, statsVars,
                   schedVars, concVars,
                   secondVars, liveVars>>

Last(s) == s[Len(s)]

\* check_url, lines 66-76: the response's dict is returned.
ReturnResponse ==
    /\ http_pc = "response"
    /\ result' = ResponseResult(Last(attempts).code, start_time, clock)
    /\ http_pc' = "returned"
    /\ UNCHANGED <<max_retries, method, expected_status_codes, clock,
                   start_time, attempts, attempt_start, retries_left,
                   statsVars, schedVars, concVars,
                   secondVars, liveVars>>

\* check_url, lines 78-89: the RequestException's dict is returned.
ReturnError ==
    /\ http_pc = "except"
    /\ result' = ErrorResult(RequestException(Last(attempts)), start_time, clock)
    /\ http_pc' = "returned"
    /\ UNCHANGED <<max_retries, method, expected_status_codes, clock,
                   start_time, attempts, attempt_start, retries_left,
                   statsVars, schedVars, concVars,
                   secondVars, liveVars>>

ProbeNext ==
    \/ CheckUrl
    \/ \E o \in Outcomes, d \in 1..MaxAttemptTime : Attempt(o, d)
    \/ \E b \in 0..MaxBackoff : Backoff(b)
    \/ ReturnResponse
    \/ ReturnError

SchedNext ==
    \/ \E id \in JobIds, f \in Funcs, n \in Intervals : AddJob(id, f, n)
    \/ \E id \in JobIds : RemoveJob(id)
    \/ \E id \in JobIds : GetJobStatus(id)
    \/ Stop
    \/ Tick
    \/ Start
    \/ While
    \/ Dispatch
    \/ \E a \in inflight : Exec50(a)
    \/ \E a \in inflight : Exec52(a)
    \/ \E a \in inflight : Exec53(a)
    \/ Sleep

\* The client at rest: max_retries 0, a GET, the default accepted codes.
ProbeIdle ==
    /\ ProbeInit
    /\ max_retries = 0
    /\ method = "GET"
    /\ expected_status_codes = {200}

\* No stop() call yet.
LiveInit == stop_called = FALSE

Init ==
    StatsInit /\ ConcInit /\ SchedInit /\ SecondInit /\ LiveInit /\ ProbeIdle

Next == SchedNext

\* The scheduler, its callers and the clock.
Spec == Init /\ [][Next]_vars

StatsNext == Update

\* One UptimeStats object and its update calls.
SpecStats == Init /\ [][StatsNext]_vars

InitProbe ==
    StatsInit /\ ConcInit /\ SchedInit /\ SecondInit /\ LiveInit /\ ProbeInit

\* Two threads calling update on one UptimeStats object.
SpecConc == Init /\ [][ConcNext]_vars

\* Two UptimeScheduler instances in one process.
SpecTwo == Init /\ [][TwoNext]_vars

\* start() and stop() on one scheduler, with a start() thread that is
\* always scheduled again.
SpecLive == Init /\ [][LiveNext]_vars /\ LiveFairness

\* One call of check_url, for every client, method and target of the model.
SpecProbe == InitProbe /\ [][ProbeNext]_vars

\* ----------------------------------------------------- UptimeStats: claims

\* C1: after every update call total_checks is the sum of successful_checks
\* and failed_checks, and every call has added exactly one to total_checks
\* (total_checks equals the number of calls made).
C1_TotalIsSuccessfulPlusFailed ==
    /\ stats.total_checks = stats.successful_checks + stats.failed_checks
    /\ stats.total_checks = calls

\* C1's case: several calls, successes and non-successes among them.
C1_Witness ==
    /\ calls >= 3
    /\ stats.successful_checks >= 1
    /\ stats.failed_checks >= 2

\* C2: uptime_percentage is 100 * successful_checks / total_checks once a
\* check was counted, and 0 before the first update.
C2_UptimePercentage ==
    IF stats.total_checks > 0
    THEN stats.uptime_percentage[1] * stats.total_checks
            = 100 * stats.successful_checks * stats.uptime_percentage[2]
    ELSE stats.uptime_percentage[1] = 0

\* C2's case: a percentage that is neither 0 nor 100, after three calls.
C2_Witness ==
    /\ stats.total_checks >= 3
    /\ stats.successful_checks >= 1
    /\ stats.failed_checks >= 1

\* C3: once N >= 1 calls carried a response time, average_response_time is
\* the sum of those response times divided by N.
C3_AverageIsMeanOfLatencies ==
    nLat >= 1 =>
        stats.average_response_time[1] * nLat
            = sumLat * stats.average_response_time[2]

\* ------------------------------------------------- UptimeScheduler: claims

\* C4: a registered job's function is invoked exactly once for each due
\* interval: whenever the tick loop has run a due schedule entry of an id
\* that is in the table, the function was invoked once (not zero times).
C4_InvokedOncePerDueInterval ==
    done.registered => done.invoked = 1

\* C5: two jobs due on the same tick are both dispatched: the tick loop never
\* ends a pass with a job it found due, whose id is still in the table, left
\* undispatched behind the job that ran before it.
C5_EveryDueJobDispatched ==
    pc \in {"crashed", "while", "returned"} =>
        \A i \in SeqRange(runnable) : ~InJobs(entries[i].job_id)

\* C6: for every job id at most one execution of the job is in progress at
\* any time.
C6_NoOverlapPerJob ==
    \A id \in JobIds :
        Cardinality({a \in inflight : entries[a.eid].job_id = id}) <= 1

\* C6's case: an execution of a registered job is in progress while a second
\* schedule entry of the same id is due and waiting in the same pass.
C6_Witness ==
    \E a \in inflight :
        /\ a.at = 53
        /\ InJobs(entries[a.eid].job_id)
        /\ \E i \in SeqRange(runnable) :
              entries[i].job_id = entries[a.eid].job_id

\* C7: a job removed while an execution of it was in flight is not re-armed:
\* during and after that execution the table holds no entry for the id and
\* get_job_status gives the empty dict, until the id is added again.
C7_RemovedInFlightNotRearmed ==
    \A id \in removedInFlight :
        /\ ~InJobs(id)
        /\ JobStatus(id) = "empty"

\* C7's case: the job was removed while its execution was in flight, and
\* that execution has completed.
C7_Witness ==
    \E id \in removedInFlight :
        /\ id \notin ActiveIds
        /\ done.job_id = id
        /\ done.registered

\* C8: add_job with an id that is already in the table is rejected with
\* DuplicateJob and changes neither the table nor the schedule entries.
C8_DuplicateAddRejected ==
    [][\A id \in JobIds, f \in Funcs, n \in Intervals :
          (InJobs(id) /\ AddJob(id, f, n)) =>
              /\ ret'.result = "DuplicateJob"
              /\ jobs' = jobs
              /\ entries' = entries
              /\ scheduled' = scheduled]_vars

C10_FaultStaysInsideJob ==
    done.outcome = "raised" => pc /= "crashed"

\* C15: once stop() has been called, the tick loop dispatches no execution
\* that had not started yet, other jobs due on the same tick included.
C15_NoDispatchAfterStop ==
    [][(~running /\ pc = "run_pending") => inflight' \subseteq inflight]_vars

\* C18: after an execution of a registered job, its table entry has
\* next_run = last_run + interval.
C18_NextRunIsLastRunPlusInterval ==
    (/\ done.registered
     /\ InJobs(done.job_id)
     /\ jobs[done.job_id].last_run /= None)
        => jobs[done.job_id].next_run
              = jobs[done.job_id].last_run + jobs[done.job_id].interval

\* C19: no backlog builds up: in a pass of the tick loop a registered job
\* has at most one execution pending or in progress.
C19_AtMostOnePendingPerJob ==
    pc = "run_pending" =>
        \A id \in JobIds :
            InJobs(id) =>
                Cardinality({i \in SeqRange(runnable) : entries[i].job_id = id})
                  + Cardinality({a \in inflight : entries[a.eid].job_id = id})
                  <= 1

\* ------------------------------------------- UptimeStats: claims (continued)

\* C20: an update whose check has no response time leaves
\* average_response_time as it was, and still adds one to total_checks and to
\* one of the two counters, sets last_check and the success or failure
\* timestamp, and recomputes uptime_percentage.
C20_NoLatencyKeepsAverage ==
    [][\A check \in UptimeCheck :
          (check.response_time = None /\ UpdateWith(check)) =>
              /\ stats'.average_response_time = stats.average_response_time
              /\ stats'.total_checks = stats.total_checks + 1
              /\ stats'.successful_checks + stats'.failed_checks
                    = stats.successful_checks + stats.failed_checks + 1
              /\ stats'.successful_checks = stats.successful_checks + 1
                    <=> check.status = "SUCCESS"
              /\ stats'.last_check = check.timestamp
              /\ check.timestamp \in {stats'.last_success, stats'.last_failure}
              /\ stats'.uptime_percentage[1] * stats'.total_checks
                    = 100 * stats'.successful_checks
                          * stats'.uptime_percentage[2]]_vars

\* C20's case: a check without a response time was folded in while the
\* average was not 0.
C20_Witness ==
    /\ nLat >= 1
    /\ calls > nLat
    /\ stats.average_response_time[1] > 0

\* -------------------------------------------- UptimeHTTPClient: claims

\* C11: check_url never lets an exception out to its caller.
C11_NeverPropagates == http_pc /= "raised"

\* C12: when every attempt ends in a retryable status (the method being one
\* the strategy retries), the check makes max_retries + 1 attempts and
\* returns one failed result whose retry count is max_retries.
C12_RetriesExhaustedAndCounted ==
    (/\ http_pc = "returned"
     /\ method \in AllowedMethods
     /\ \A i \in 1..Len(attempts) :
           attempts[i].kind = "response" /\ attempts[i].code \in StatusForcelist)
        => /\ Len(attempts) = max_retries + 1
           /\ ~result.success
           /\ RetryCountOf(result) = max_retries

C14_SuccessIffExpectedCode ==
    http_pc = "returned" =>
        (result.success <=>
            /\ Last(attempts).kind = "response"
            /\ 200 <= Last(attempts).code
            /\ Last(attempts).code < 400
            /\ \/ expected_status_codes = {}
               \/ Last(attempts).code \in expected_status_codes)

\* C17: the response time of a result is the duration of the final attempt,
\* also when earlier attempts and backoff sleeps came before it.
C17_LatencyOfFinalAttempt ==
    (http_pc = "returned" /\ Len(attempts) >= 2)
        => result.response_time = result.timestamp - attempt_start

\* C16: two update calls on one UptimeStats object that run concurrently
\* behave as if run one after the other: once no call is in progress,
\* total_checks has grown by one per call made and equals
\* successful_checks + failed_checks.
C16_ConcurrentUpdatesSerialize ==
    (\A t \in Threads : thread[t].pc = "idle")
        => /\ stats.total_checks = calls
           /\ stats.total_checks = stats.successful_checks + stats.failed_checks

\* The pending schedule entries (positions in the registry) bound to id.
PendingOf(id) ==
    {k \in 1..Len(scheduled) : entries[scheduled[k]].job_id = id}

\* C22: after any sequence of add_job and remove_job calls the pending
\* schedule entries correspond to the ids in the job table: a registered id
\* has a pending entry, and an id that is not in the table (never added, or
\* removed by remove_job) has none.  That a registered id has no second
\* entry is C19's statement and is left out here.
C22_PendingMatchesJobTable ==
    \A id \in JobIds :
        IF InJobs(id) THEN PendingOf(id) /= {} ELSE PendingOf(id) = {}

\* C21: scheduler instances share no scheduling state.  The tick loop of the
\* second instance's start() activates only jobs that instance added, so a
\* job of the first instance, whose start() is never called here, is never
\* run: its last_run stays None; and no call on the second instance takes a
\* pending entry of the first out of the registry.
C21_InstancesShareNothing ==
    /\ \A a \in inflight2 : a.eid \in owned2
    /\ \A id \in JobIds : InJobs(id) => jobs[id].last_run = None
    /\ \A i \in 1..Len(entries) : i \notin owned2 => i \in SeqRange(scheduled)

\* C23: a stop request is never lost.  Once stop() has been called, before,
\* while or after start() set the running flag, the loop of start()
\* eventually terminates (by returning, or by an exception that leaves it).
C23_StopNeverLost ==
    (stop_called /\ pc /= "idle") ~> (pc \in {"returned", "crashed"})

=============================================================================
